---- MODULE Spec2Model ----
(***************************************************************************)
(* A model of ptag's element tree (src/ptag/tag.py): class Tag with its    *)
(* constructor, normalize/_create_child, affix, the context manager        *)
(* (__enter__/__exit__ over the class-wide context_stack) and __repr__.    *)
(*                                                                         *)
(* Python strings are sequences of one-character strings, so that sorting, *)
(* key amendment and rendering are computed character by character.        *)
(* Tag objects are numbered 1, 2, ... in construction order; the fields of *)
(* object n are tag_name[n], args[n], kwargs[n], children[n], parent[n].   *)
(***************************************************************************)
EXTENDS Integers, Sequences, FiniteSets, TLC

\* Bounds of the model.
MaxNodes == 3
MaxDepth == 2
MaxAttrNodes == 1
MaxThreadNodes == 3
MaxInvalidNodes == 2
MaxContentNodes == 2
MaxThreadDepth == 1

\* tag_name, args, kwargs, children, parent: the fields of the Tag objects.
\* context_stack: Tag.context_stack.  withStack[t]: the nodes of the with
\* blocks thread t is inside, innermost last.  call: the latest call, its
\* arguments, whether it raised, and the children its target held before it.
VARIABLES tag_name, args, kwargs, children, parent, context_stack, withStack, call

vars == <<tag_name, args, kwargs, children, parent, context_stack, withStack, call>>

Threads == {1, 2}

------------------------------------------------------------------------------
\* Python values that reach the library as tag names, contents and attribute
\* values.
PyNone == [kind |-> "None"]
PyStr(s) == [kind |-> "str", s |-> s]
PyInt(i) == [kind |-> "int", i |-> i]
PyTag(n) == [kind |-> "Tag", node |-> n]
PyIter(items) == [kind |-> "iter", items |-> items]

\* class Text(str): a str carrying a parent attribute.
Text(s, p) == [kind |-> "Text", s |-> s, parent |-> p]

\* children is None, or a list.
NoneChildren == [isNone |-> TRUE, list |-> <<>>]
ListChildren(l) == [isNone |-> FALSE, list |-> l]

\* The characters the model uses, in code point order.
Alphabet == <<" ", "\"", "-", "/", "0", "1", "2", "3", "4", "5", "6", "7",
              "8", "9", "<", "=", ">", "N", "_", "a", "b", "c", "d", "e",
              "f", "h", "i", "l", "n", "o", "p", "r", "s", "t", "v", "x">>

Ord(c) == CHOOSE i \in 1..Len(Alphabet) : Alphabet[i] = c

\* str < str: lexicographic on code points.
RECURSIVE StrLess(_, _)
StrLess(a, b) ==
    IF b = <<>> THEN FALSE
    ELSE IF a = <<>> THEN TRUE
    ELSE IF Head(a) # Head(b) THEN Ord(Head(a)) < Ord(Head(b))
    ELSE StrLess(Tail(a), Tail(b))

SetOf(seq) == {seq[i] : i \in 1..Len(seq)}

\* sorted(S) for a set of str.
RECURSIVE Sorted(_)
Sorted(S) ==
    IF S = {} THEN <<>>
    ELSE LET m == CHOOSE x \in S : \A y \in S \ {x} : StrLess(x, y)
         IN <<m>> \o Sorted(S \ {m})

RECURSIVE Digits(_)
Digits(i) ==
    IF i < 10 THEN <<Alphabet[Ord("0") + i]>>
    ELSE Digits(i \div 10) \o <<Alphabet[Ord("0") + (i % 10)]>>

\* str(v), as str(tag_name) and the f-string of __repr__ compute it.
PyStrOf(v) ==
    CASE v.kind = "str" -> v.s
      [] v.kind = "None" -> <<"N", "o", "n", "e">>
      [] v.kind = "int" -> Digits(v.i)

RECURSIVE Concat(_)
Concat(seqs) == IF seqs = <<>> THEN <<>> ELSE Head(seqs) \o Concat(Tail(seqs))

\* sep.join(strs)
RECURSIVE Join(_, _)
Join(strs, sep) ==
    IF strs = <<>> THEN <<>>
    ELSE IF Len(strs) = 1 THEN strs[1]
    ELSE strs[1] \o sep \o Join(Tail(strs), sep)

------------------------------------------------------------------------------
\* normalize and _create_child

\* The items normalize hands to _create_child, in order.
Items(content) ==
    CASE content.kind \in {"str", "Tag"} -> <<content>>
      [] content.kind = "iter" -> content.items
      [] OTHER -> <<>>

ValidItem(item) == item.kind \in {"str", "Tag"}

\* normalize raises ValueError: content without __iter__, or an item that is
\* neither str nor Tag.
NormalizeRaises(content) ==
    CASE content.kind = "None" -> FALSE
      [] content.kind \in {"str", "Tag"} -> FALSE
      [] content.kind = "iter" ->
            \E i \in 1..Len(content.items) : ~ValidItem(content.items[i])
      [] OTHER -> TRUE

\* How many items _create_child handled before normalize returned or raised.
Processed(content) ==
    LET its == Items(content)
        bad == {i \in 1..Len(its) : ~ValidItem(its[i])}
    IN IF bad = {} THEN Len(its)
       ELSE (CHOOSE i \in bad : \A j \in bad : i <= j) - 1

CreateChild(self, item) ==
    IF item.kind = "str" THEN Text(item.s, self) ELSE PyTag(item.node)

\* The value normalize returns when it does not raise.
Normalize(self, content) ==
    IF content.kind = "None" THEN NoneChildren
    ELSE ListChildren([i \in 1..Len(Items(content)) |->
                          CreateChild(self, Items(content)[i])])

\* child.parent = self, for every Tag item _create_child handled.
NormalizeParent(self, content, par) ==
    [n \in DOMAIN par |->
        IF \E i \in 1..Processed(content) : Items(content)[i] = PyTag(n)
        THEN self ELSE par[n]]

------------------------------------------------------------------------------
\* affix

\* a == b for two children: str equality for Text, identity for Tag.
PyEq(a, b) ==
    IF a.kind = "Text" /\ b.kind = "Text" THEN a.s = b.s
    ELSE IF a.kind = "Tag" /\ b.kind = "Tag" THEN a.node = b.node
    ELSE FALSE

PyIn(c, list) == \E i \in 1..Len(list) : PyEq(c, list[i])

NewChildrenAll(cand, old) == cand

\* [child for child in children if child not in old_children]
NewChildren(cand, old) ==
    LET Fresh(c) == ~PyIn(c, old) IN SelectSeq(cand, Fresh)

TruthyNotNone(ch) == ~ch.isNone

\* `if children:` a list that is not empty.
Truthy(ch) == ~ch.isNone /\ ch.list # <<>>

MergeArgsAppend(old, a) == old \o a

\* sorted(set(self.args) | set(args))
MergeArgs(old, a) == Sorted(SetOf(old) \cup SetOf(a))

Keys(d) == {d[i].key : i \in 1..Len(d)}
Lookup(d, k) == LET i == CHOOSE j \in 1..Len(d) : d[j].key = k IN d[i].val

RECURSIVE DictSetDefault(_, _)
DictSetDefault(d, kw) ==
    IF kw = <<>> THEN d
    ELSE LET e == Head(kw)
             d1 == IF e.key \in Keys(d) THEN d ELSE Append(d, e)
         IN DictSetDefault(d1, Tail(kw))

\* dict.update: a key already present keeps its place and takes the new
\* value, a new key goes last.
RECURSIVE DictUpdate(_, _)
DictUpdate(d, kw) ==
    IF kw = <<>> THEN d
    ELSE LET e == Head(kw)
             d1 == IF e.key \in Keys(d)
                   THEN [i \in 1..Len(d) |-> IF d[i].key = e.key THEN e ELSE d[i]]
                   ELSE Append(d, e)
         IN DictUpdate(d1, Tail(kw))

\* The objects' fields as one value, for the operators below.
Heap == [tag_name |-> tag_name, args |-> args, kwargs |-> kwargs,
         children |-> children, parent |-> parent]

\* self.affix(content, *a, **kw) on heap h, when normalize does not raise.
Affix(h, self, content, a, kw) ==
    LET cand == Normalize(self, content)
        old == IF h.children[self].isNone THEN <<>> ELSE h.children[self].list
        ch == IF Truthy(cand)
              THEN ListChildren(old \o NewChildren(cand.list, old))
              ELSE h.children[self]
    IN [h EXCEPT !.parent = NormalizeParent(self, content, h.parent),
                 !.children[self] = ch,
                 !.args[self] = MergeArgs(h.args[self], a),
                 !.kwargs[self] = DictUpdate(h.kwargs[self], kw)]

\* self.affix(content, ...) when normalize raises: only the parent
\* assignments made before the raise remain.
AffixRaised(h, self, content) ==
    [h EXCEPT !.parent = NormalizeParent(self, content, h.parent)]

------------------------------------------------------------------------------
\* The tree

Nodes == 1..Len(tag_name)

ChildNodes(ch) == {ch.list[i].node : i \in {j \in 1..Len(ch.list) : ch.list[j].kind = "Tag"}}

\* The nodes reachable from n through children, n included.
RECURSIVE ReachFrom(_, _)
ReachFrom(S, k) ==
    IF k = 0 THEN S
    ELSE ReachFrom(S \cup UNION {ChildNodes(children[m]) : m \in S}, k - 1)

Reach(n) == ReachFrom({n}, Len(tag_name))

TagItems(content) ==
    {Items(content)[i].node : i \in {j \in 1..Len(Items(content)) : Items(content)[j].kind = "Tag"}}

\* Callers build trees: content never holds the target or one of its ancestors.
KeepsTree(target, content) == \A x \in TagItems(content) : target \notin Reach(x)

------------------------------------------------------------------------------
\* The context manager

ContextStackLocal(t) == withStack[t]

\* Tag.context_stack, a class attribute: every thread reads the same list.
ContextStack(t) == context_stack

ContextTopFirst(stack) == stack[1]

\* Tag.context_stack[-1]
ContextTop(stack) == stack[Len(stack)]

Front(s) == SubSeq(s, 1, Len(s) - 1)

ExitFilterAll(self, list, par) == list

\* [child for child in self.children if isinstance(child, str) or child.parent is self]
ExitFilter(self, list, par) ==
    LET Keep(c) == c.kind = "Text" \/ par[c.node] = self IN SelectSeq(list, Keep)

NoCall == [op |-> "none", thread |-> 0, self |-> 0, tag |-> PyNone, content |-> PyNone,
           args |-> <<>>, kwargs |-> <<>>, raised |-> "none", before |-> NoneChildren]

Init ==
    /\ tag_name = <<>>
    /\ args = <<>>
    /\ kwargs = <<>>
    /\ children = <<>>
    /\ parent = <<>>
    /\ context_stack = <<>>
    /\ withStack = [t \in Threads |-> <<>>]
    /\ call = NoCall

\* Tag(tag, content, *a, **kw) in thread t.  When normalize raises, the object
\* exists with its tag_name, args and kwargs set and children left at the
\* class default None, and is not affixed to the stack top.
Construct(t, tag, content, a, kw) ==
    LET new == Len(tag_name) + 1
        stack == ContextStack(t)
        h0 == [tag_name |-> Append(tag_name, PyStrOf(tag)),
               args |-> Append(args, Sorted(SetOf(a))),
               kwargs |-> Append(kwargs, kw),
               children |-> Append(children, NoneChildren),
               parent |-> Append(parent, 0)]
        raises == NormalizeRaises(content)
        h1 == IF raises
              THEN AffixRaised(h0, new, content)
              ELSE [h0 EXCEPT !.children[new] = Normalize(new, content),
                              !.parent = NormalizeParent(new, content, h0.parent)]
        attach == ~raises /\ stack # <<>>
        h2 == IF attach THEN Affix(h1, ContextTop(stack), PyTag(new), <<>>, <<>>) ELSE h1
    IN /\ TagItems(content) \subseteq Nodes
       /\ stack # <<>> => KeepsTree(ContextTop(stack), content)
       /\ tag_name' = h2.tag_name
       /\ args' = h2.args
       /\ kwargs' = h2.kwargs
       /\ children' = h2.children
       /\ parent' = h2.parent
       /\ call' = [op |-> "Construct", thread |-> t, self |-> new, tag |-> tag,
                   content |-> content, args |-> a, kwargs |-> kw,
                   raised |-> IF raises THEN "ValueError" ELSE "none",
                   before |-> IF stack # <<>> THEN children[ContextTop(stack)]
                              ELSE NoneChildren]
       /\ UNCHANGED <<context_stack, withStack>>

\* self.affix(content, *a, **kw) in thread t.
Attach(t, self, content, a, kw) ==
    LET raises == NormalizeRaises(content)
        h == IF raises THEN AffixRaised(Heap, self, content)
             ELSE Affix(Heap, self, content, a, kw)
    IN /\ self \in Nodes
       /\ TagItems(content) \subseteq Nodes
       /\ KeepsTree(self, content)
       /\ args' = h.args
       /\ kwargs' = h.kwargs
       /\ children' = h.children
       /\ parent' = h.parent
       /\ call' = [op |-> "Attach", thread |-> t, self |-> self, tag |-> PyNone,
                   content |-> content, args |-> a, kwargs |-> kw,
                   raised |-> IF raises THEN "ValueError" ELSE "none",
                   before |-> children[self]]
       /\ UNCHANGED <<tag_name, context_stack, withStack>>

\* self.__enter__() in thread t: the with statement's entry.
Enter(t, self) ==
    /\ self \in Nodes
    /\ context_stack' = Append(ContextStack(t), self)
    /\ withStack' = [withStack EXCEPT ![t] = Append(@, self)]
    /\ call' = [NoCall EXCEPT !.op = "Enter", !.thread = t, !.self = self]
    /\ UNCHANGED <<tag_name, args, kwargs, children, parent>>

\* self.__exit__(...) in thread t, for the innermost with block t is in.
\* The stack holds one entry per open block, so pop() finds it non-empty.
\* When self.children is None the comprehension raises TypeError, after the
\* pop.
Exit(t) ==
    /\ withStack[t] # <<>>
    /\ ContextStack(t) # <<>>
    /\ LET self == withStack[t][Len(withStack[t])]
           raises == children[self].isNone
       IN /\ context_stack' = Front(ContextStack(t))
          /\ withStack' = [withStack EXCEPT ![t] = Front(@)]
          /\ children' = IF raises THEN children
                         ELSE [children EXCEPT ![self] =
                                 ListChildren(ExitFilter(self, children[self].list, parent))]
          /\ call' = [NoCall EXCEPT !.op = "Exit", !.thread = t, !.self = self,
                                    !.raised = IF raises THEN "TypeError" ELSE "none",
                                    !.before = children[self]]
          /\ UNCHANGED <<tag_name, args, kwargs, parent>>

------------------------------------------------------------------------------
\* __repr__

sClass == <<"c", "l", "a", "s", "s", "_">>
sFor == <<"f", "o", "r", "_">>

\* key.removesuffix("_") if key in ("class_", "for_") else key.replace("_", "-")
AmendKey(key) ==
    IF key \in {sClass, sFor} THEN SubSeq(key, 1, Len(key) - 1)
    ELSE [i \in 1..Len(key) |-> IF key[i] = "_" THEN "-" ELSE key[i]]

\* [f'{key}="{val}"' for key, val in kwargs_tuple if val is not None]
RECURSIVE KwTokens(_)
KwTokens(kw) ==
    IF kw = <<>> THEN <<>>
    ELSE LET e == Head(kw)
             tok == AmendKey(e.key) \o <<"=", "\"">> \o PyStrOf(e.val) \o <<"\"">>
         IN (IF e.val.kind = "None" THEN <<>> ELSE <<tok>>) \o KwTokens(Tail(kw))

\* " ".join([self.tag_name] + list(self.args) + kwargs)
AttrStr(n) == Join(<<tag_name[n]>> \o args[n] \o KwTokens(kwargs[n]), <<" ">>)

RECURSIVE RenderTruthy(_)
RenderTruthy(n) ==
    LET ch == children[n]
        content == Concat([i \in 1..Len(ch.list) |->
                     IF ch.list[i].kind = "Text" THEN ch.list[i].s
                     ELSE RenderTruthy(ch.list[i].node)])
    IN IF ch.isNone \/ content = <<>>
       THEN <<"<">> \o AttrStr(n) \o <<" ", "/", ">">>
       ELSE <<"<">> \o AttrStr(n) \o <<">">> \o content
            \o <<"<", "/">> \o tag_name[n] \o <<">">>

\* repr(node); str(child) of a Text is its string, of a Tag its repr.
RECURSIVE Render(_)
Render(n) ==
    LET ch == children[n]
        content == Concat([i \in 1..Len(ch.list) |->
                     IF ch.list[i].kind = "Text" THEN ch.list[i].s
                     ELSE Render(ch.list[i].node)])
    IN IF ch.isNone
       THEN <<"<">> \o AttrStr(n) \o <<" ", "/", ">">>
       ELSE <<"<">> \o AttrStr(n) \o <<">">> \o content
            \o <<"<", "/">> \o tag_name[n] \o <<">">>

------------------------------------------------------------------------------
\* The tree specification: one thread, explicit and scoped attachment, no
\* attributes.
sA == <<"a">>
sP == <<"p">>

TreeContents == {PyNone, PyStr(sA)} \cup {PyTag(n) : n \in Nodes}

TreeConstruct ==
    /\ Len(tag_name) < MaxNodes
    /\ \E c \in TreeContents : Construct(1, PyStr(sP), c, <<>>, <<>>)

TreeAttach == \E n \in Nodes, c \in TreeContents \ {PyNone} : Attach(1, n, c, <<>>, <<>>)

TreeEnter ==
    /\ Len(context_stack) < MaxDepth
    /\ \E n \in Nodes : Enter(1, n)

TreeExit == Exit(1)

Next == TreeConstruct \/ TreeAttach \/ TreeEnter \/ TreeExit

Spec == Init /\ [][Next]_vars

------------------------------------------------------------------------------
\* The scopes specification: with blocks and constructors only.

ScopeContents ==
    {PyNone, PyStr(sA)} \cup {PyTag(n) : n \in Nodes}
    \cup {PyIter(<<PyTag(n), PyStr(sA)>>) : n \in Nodes}

ScopeConstruct ==
    /\ Len(tag_name) < MaxNodes
    /\ \E c \in ScopeContents : Construct(1, PyStr(sP), c, <<>>, <<>>)

NextScopes == ScopeConstruct \/ TreeEnter \/ TreeExit

SpecScopes == Init /\ [][NextScopes]_vars

------------------------------------------------------------------------------
\* The invalid-content specification: contents normalize rejects.

InvalidContents ==
    {PyNone, PyInt(5), PyIter(<<PyInt(5)>>)}
    \cup {PyTag(n) : n \in Nodes}
    \cup {PyIter(<<PyTag(n), PyInt(5)>>) : n \in Nodes}

InvalidConstruct ==
    /\ Len(tag_name) < MaxInvalidNodes
    /\ \E c \in InvalidContents : Construct(1, PyStr(sP), c, <<>>, <<>>)

InvalidAttach ==
    \E n \in Nodes, c \in InvalidContents, a \in {<<>>, <<sA>>} : Attach(1, n, c, a, <<>>)

NextInvalid == InvalidConstruct \/ InvalidAttach \/ TreeEnter \/ TreeExit

SpecInvalid == Init /\ [][NextInvalid]_vars

------------------------------------------------------------------------------
\* The attributes specification: constructors and affix with positional and
\* named attributes, no with blocks.
sEmpty == <<>>
sB == <<"b">>
sC == <<"c">>
sHi == <<"h", "i">>
sV == <<"v">>
sId == <<"i", "d">>

KV(k, v) == [key |-> k, val |-> v]

AttrArgs == {<<>>, <<sB, sA, sB>>, <<sC>>}

AttrKwargs ==
    {<<>>, <<KV(sId, PyInt(3))>>, <<KV(sClass, PyStr(sEmpty)), KV(sId, PyNone)>>,
     <<KV(sId, PyStr(sV))>>}

\* A call passes positional attributes, or named attributes, or neither.
AttrInputs == {<<a, <<>>>> : a \in AttrArgs} \cup {<<<<>>, kw>> : kw \in AttrKwargs}

AttrConstruct ==
    /\ Len(tag_name) < MaxAttrNodes
    /\ \E c \in {PyNone, PyStr(sHi)}, in \in AttrInputs :
          Construct(1, PyStr(sP), c, in[1], in[2])

AttrAttach == \E n \in Nodes, in \in AttrInputs : Attach(1, n, PyNone, in[1], in[2])

NextAttrs == AttrConstruct \/ AttrAttach

SpecAttrs == Init /\ [][NextAttrs]_vars

------------------------------------------------------------------------------
\* The content specification: constructors and affix with every kind of valid
\* content; attributes are given to constructors only.

ContentTags == {PyStr(sP), PyNone}

ContentContents ==
    {PyNone, PyStr(sEmpty), PyStr(sHi), PyIter(<<>>), PyIter(<<PyStr(sHi), PyStr(sHi)>>)}
    \cup {PyTag(n) : n \in Nodes}

ContentAttrs == {<<<<>>, <<>>>>, <<<<sC>>, <<KV(sClass, PyStr(sV)), KV(sId, PyNone)>>>>}

ContentConstruct ==
    /\ Len(tag_name) < MaxContentNodes
    /\ \E tag \in ContentTags, c \in ContentContents, in \in ContentAttrs :
          Construct(1, tag, c, in[1], in[2])

ContentAttach == \E n \in Nodes, c \in ContentContents : Attach(1, n, c, <<>>, <<>>)

NextContent == ContentConstruct \/ ContentAttach

SpecContent == Init /\ [][NextContent]_vars

------------------------------------------------------------------------------
\* The threads specification: two threads, each in with blocks on nodes no
\* other block is open on, constructing nodes inside them.

OnStack(n) == \E i \in 1..Len(context_stack) : context_stack[i] = n

ThreadConstruct(t) ==
    /\ Len(tag_name) < MaxThreadNodes
    /\ \E c \in {PyNone, PyStr(sA)} : Construct(t, PyStr(sP), c, <<>>, <<>>)

ThreadEnter(t) ==
    /\ Len(withStack[t]) < MaxThreadDepth
    /\ \E n \in Nodes :
          /\ ~OnStack(n)
          /\ \A u \in Threads : \A i \in 1..Len(withStack[u]) : withStack[u][i] # n
          /\ Enter(t, n)

ThreadExit(t) == Exit(t)

NextThreads == \E t \in Threads : ThreadConstruct(t) \/ ThreadEnter(t) \/ ThreadExit(t)

SpecThreads == Init /\ [][NextThreads]_vars

------------------------------------------------------------------------------
\* Properties

Ok(op) == call.op = op /\ call.raised = "none"

HasNode(ch, n) == PyIn(PyTag(n), ch.list)

\* C1: after Exit(A), A.children is exactly the entries A held just before the
\* exit that are Text entries or Tags whose parent is A, in their previous
\* order; so when B and C were both held, B's parent is A and C was attached to
\* B, A keeps B, loses C, and B holds C.
C1_ExitReconciles ==
    call.op = "Exit" =>
        LET A == call.self
            Kept(c) == c.kind = "Text" \/ parent[c.node] = A
        IN /\ children[A].list = SelectSeq(call.before.list, Kept)
           /\ children[A].isNone = call.before.isNone
           /\ \A B, C \in Nodes :
                 ( /\ HasNode(call.before, B) /\ HasNode(call.before, C)
                   /\ parent[B] = A /\ parent[C] = B /\ HasNode(children[B], C) )
                 => ( /\ HasNode(children[A], B)
                      /\ ~HasNode(children[A], C)
                      /\ HasNode(children[B], C) )

\* A scope on A whose text was kept, with B and C held at exit, C attached to B.
C1_Witness ==
    /\ Ok("Exit")
    /\ \E B, C \in Nodes :
          /\ HasNode(call.before, B) /\ HasNode(call.before, C)
          /\ parent[B] = call.self /\ parent[C] = B /\ HasNode(children[B], C)
          /\ HasNode(children[call.self], B) /\ ~HasNode(children[call.self], C)
    /\ \E i \in 1..Len(children[call.self].list) : children[call.self].list[i].kind = "Text"

\* C7: Exit never raises, whatever was or was not constructed inside the
\* scope; a scope on a void node exits normally and leaves it void.
C7_ExitNeverRaises ==
    call.op = "Exit" =>
        /\ call.raised = "none"
        /\ call.before.isNone => children[call.self].isNone

\* C2: a node constructed while a scope is open becomes the last child of the
\* innermost open scope's node and of no other open scope's node; a node
\* constructed while no scope is open is attached to nothing; the children a
\* node received after its own construction stand in construction order.
C2_ImplicitAttach ==
    /\ Ok("Construct") =>
          LET new == call.self IN
          IF context_stack # <<>>
          THEN LET top == context_stack[Len(context_stack)] IN
               /\ ~children[top].isNone
               /\ children[top].list = call.before.list \o <<PyTag(new)>>
               /\ parent[new] = top
               /\ \A i \in 1..Len(context_stack) :
                     context_stack[i] # top => ~HasNode(children[context_stack[i]], new)
          ELSE /\ parent[new] = 0
               /\ \A m \in Nodes : ~HasNode(children[m], new)
    /\ \A A \in Nodes : \A i, j \in 1..Len(children[A].list) :
          LET ci == children[A].list[i]
              cj == children[A].list[j]
          IN (i < j /\ ci.kind = "Tag" /\ cj.kind = "Tag" /\ ci.node > A /\ cj.node > A)
             => ci.node < cj.node

\* A node constructed in the inner of two open scopes, after an earlier child.
C2_Witness ==
    /\ Ok("Construct")
    /\ Len(context_stack) = 2
    /\ context_stack[1] # context_stack[2]
    /\ call.before.list # <<>>
    /\ parent[call.self] = context_stack[2]

\* The contents the library accepts: None, a str, a Tag, an iterable of those.
ValidContent(c) ==
    \/ c.kind \in {"None", "str", "Tag"}
    \/ c.kind = "iter" /\ \A i \in 1..Len(c.items) : c.items[i].kind \in {"str", "Tag"}

\* C8: a constructor or affix call given invalid content raises ValueError and
\* has no partial effect: every existing node's children, parent and
\* attributes and the context stack are as before the call.
C8_NoPartialEffect ==
    [][(call'.op \in {"Construct", "Attach"} /\ ~ValidContent(call'.content))
       => /\ call'.raised = "ValueError"
          /\ \A n \in Nodes :
                /\ parent'[n] = parent[n]
                /\ children'[n] = children[n]
                /\ args'[n] = args[n]
                /\ kwargs'[n] = kwargs[n]
          /\ context_stack' = context_stack]_vars

\* C10: the stack is one for all threads: a node constructed by any thread is
\* attached to the top of the shared stack, also when another thread's block
\* pushed that top, and the stack holds one entry per open block of any thread.
C10_SharedStack ==
    /\ Len(context_stack) = Len(withStack[1]) + Len(withStack[2])
    /\ (Ok("Construct") /\ context_stack # <<>>) =>
          LET top == context_stack[Len(context_stack)] IN
          /\ parent[call.self] = top
          /\ children[top].list = call.before.list \o <<PyTag(call.self)>>
    /\ \A t, u \in Threads :
          ( /\ t # u /\ Ok("Construct") /\ call.thread = t
            /\ withStack[u] # <<>> /\ context_stack # <<>>
            /\ context_stack[Len(context_stack)] = withStack[u][Len(withStack[u])] )
          => parent[call.self] = withStack[u][Len(withStack[u])]

\* A thread inside its own block whose new node went to the other thread's
\* node.
C10_Witness ==
    \E t, u \in Threads :
       /\ t # u /\ Ok("Construct") /\ call.thread = t
       /\ withStack[t] # <<>> /\ withStack[u] # <<>>
       /\ parent[call.self] = withStack[u][Len(withStack[u])]
       /\ parent[call.self] # withStack[t][Len(withStack[t])]

SelfClosing == <<" ", "/", ">">>

EndsSelfClosing(r) == Len(r) >= 3 /\ SubSeq(r, Len(r) - 2, Len(r)) = SelfClosing

EndTag(name) == <<"<", "/">> \o name \o <<">">>

\* C3: a node renders self-closing, `<tag attrs />`, exactly when its children
\* are None, and otherwise as `<tag attrs>`, its children's renderings and
\* `</tag>`; Tag(t) and Tag(t, None) render `<t />`, Tag(t, s) renders
\* `<t>s</t>` for every string s, the empty one included.
C3_RenderForm ==
    /\ \A n \in Nodes :
          LET r == Render(n)
              open == <<"<">> \o AttrStr(n)
              inner == Concat([i \in 1..Len(children[n].list) |->
                          LET c == children[n].list[i]
                          IN IF c.kind = "Text" THEN c.s ELSE Render(c.node)])
          IN /\ children[n].isNone <=> EndsSelfClosing(r)
             /\ children[n].isNone => r = open \o SelfClosing
             /\ ~children[n].isNone => r = open \o <<">">> \o inner \o EndTag(tag_name[n])
    /\ (Ok("Construct") /\ call.args = <<>> /\ call.kwargs = <<>>) =>
          LET name == PyStrOf(call.tag) IN
          /\ call.content.kind = "None" => Render(call.self) = <<"<">> \o name \o SelfClosing
          /\ call.content.kind = "str" =>
                Render(call.self) = <<"<">> \o name \o <<">">> \o call.content.s \o EndTag(name)

\* Tag("p", "") just constructed, rendering <p></p>, beside a void node that
\* carries attributes.
C3_Witness ==
    /\ Ok("Construct")
    /\ call.content = PyStr(sEmpty)
    /\ Render(call.self) = <<"<", "p", ">", "<", "/", "p", ">">>
    /\ \E m \in Nodes : children[m].isNone /\ args[m] # <<>> /\ EndsSelfClosing(Render(m))

Count(list, c) == Cardinality({i \in 1..Len(list) : PyEq(list[i], c)})

\* C4: affix appends, after the existing children and in the given order,
\* exactly the candidates that equal no child present before the call; so
\* affix of a string the node already holds changes nothing, and affix of the
\* same string twice leaves one copy.
C4_AttachDedup ==
    Ok("Attach") =>
        LET n == call.self
            old == call.before.list
            new == children[n].list
            cand == Normalize(n, call.content).list
            added == SubSeq(new, Len(old) + 1, Len(new))
            Absent(c) == \A i \in 1..Len(old) : ~PyEq(c, old[i])
        IN /\ Len(new) >= Len(old)
           /\ SubSeq(new, 1, Len(old)) = old
           /\ \A i \in 1..Len(added) : Absent(added[i])
           /\ added = SelectSeq(cand, Absent)
           /\ call.content.kind = "str" =>
                 LET s == Text(call.content.s, n) IN
                 /\ Count(old, s) >= 1 => children[n] = call.before
                 /\ Count(old, s) = 0 => Count(new, s) = 1

\* affix("hi") on a node that already held "hi": nothing was added.
C4_Witness ==
    /\ Ok("Attach")
    /\ call.content = PyStr(sHi)
    /\ Count(call.before.list, Text(sHi, call.self)) = 1
    /\ children[call.self] = call.before
    /\ Count(children[call.self].list, Text(sHi, call.self)) = 1

\* C9: affix on a void node with a string (the empty one included), a Tag or a
\* non-empty iterable makes children a non-empty list and the node no longer
\* renders self-closing; with None or an empty iterable the node stays void;
\* the constructor given an empty iterable yields an empty list.
C9_AttachOnVoid ==
    /\ (Ok("Attach") /\ call.before.isNone) =>
          LET n == call.self
              c == call.content
          IN /\ (c.kind \in {"str", "Tag"} \/ (c.kind = "iter" /\ c.items # <<>>))
                => ( /\ ~children[n].isNone
                     /\ children[n].list # <<>>
                     /\ ~EndsSelfClosing(Render(n)) )
             /\ (c.kind = "None" \/ c = PyIter(<<>>))
                => ( /\ children[n].isNone
                     /\ EndsSelfClosing(Render(n)) )
    /\ (Ok("Construct") /\ call.content = PyIter(<<>>)) =>
          children[call.self] = ListChildren(<<>>)

\* affix("") on a void node: one empty Text child, rendered <p></p>.
C9_Witness ==
    /\ Ok("Attach")
    /\ call.before.isNone
    /\ call.content = PyStr(sEmpty)
    /\ children[call.self] = ListChildren(<<Text(sEmpty, call.self)>>)
    /\ Render(call.self) = <<"<", "p", ">", "<", "/", "p", ">">>

IsSortedNoDup(seq) == \A i \in 1..Len(seq) - 1 : StrLess(seq[i], seq[i + 1])

\* C5: after the constructor and any number of affix calls, a node's
\* positional attributes are sorted, free of duplicates, and as a set the
\* union of those passed to the constructor and to every affix call.
C5_PositionalSortedUnion ==
    [][\A n \in 1..Len(tag_name') :
          /\ IsSortedNoDup(args'[n])
          /\ (call'.op = "Construct" /\ call'.self = n)
                => SetOf(args'[n]) = SetOf(call'.args)
          /\ (call'.op = "Attach" /\ call'.raised = "none" /\ call'.self = n)
                => SetOf(args'[n]) = SetOf(args[n]) \cup SetOf(call'.args)
          /\ (n \in Nodes /\ call'.self # n) => args'[n] = args[n]]_vars

\* affix(None, "b", "a", "b") on a node that held "c".
C5_Witness ==
    /\ Ok("Attach")
    /\ call.args = <<sB, sA, sB>>
    /\ args[call.self] = <<sA, sB, sC>>

KeySeq(d) == [i \in 1..Len(d) |-> d[i].key]

\* The key="value" tokens of a mapping: one per key whose value is not None.
RECURSIVE ExpectedTokens(_)
ExpectedTokens(d) ==
    IF d = <<>> THEN <<>>
    ELSE LET k == AmendKey(d[1].key)
             v == d[1].val
             tok == CASE v.kind = "None" -> <<>>
                      [] v.kind = "str" -> <<k \o <<"=", "\"">> \o v.s \o <<"\"">>>>
                      [] v.kind = "int" -> <<k \o <<"=", "\"">> \o Digits(v.i) \o <<"\"">>>>
         IN tok \o ExpectedTokens(Tail(d))

\* C6: each named key holds the value of the latest call that set it and
\* keeps the place of its first insertion; repr emits, after the positional
\* tokens, one key="value" token per key in that order, none for a key whose
\* value is None, and key="" for the empty string.
C6_NamedLaterWins ==
    [][\A n \in 1..Len(tag_name') :
          LET K == call'.kwargs
              Fresh(k) == k \notin Keys(kwargs[n])
          IN /\ (call'.op = "Construct" /\ call'.self = n) => kwargs'[n] = K
             /\ (call'.op = "Attach" /\ call'.raised = "none" /\ call'.self = n) =>
                   /\ \A k \in Keys(K) : Lookup(kwargs'[n], k) = Lookup(K, k)
                   /\ \A k \in Keys(kwargs[n]) \ Keys(K) :
                         Lookup(kwargs'[n], k) = Lookup(kwargs[n], k)
                   /\ KeySeq(kwargs'[n]) = KeySeq(kwargs[n]) \o SelectSeq(KeySeq(K), Fresh)
             /\ LET inner == IF children'[n].isNone THEN SelfClosing
                             ELSE <<">">> \o Concat([i \in 1..Len(children'[n].list) |->
                                                       children'[n].list[i].s])
                                  \o EndTag(tag_name'[n])
                IN Render(n)' = <<"<">>
                      \o Join(<<tag_name'[n]>> \o args'[n] \o ExpectedTokens(kwargs'[n]), <<" ">>)
                      \o inner]_vars

\* class_="" and id=None were set, then affix(None, id="v"): id keeps its
\* second place and shows the later value.
C6_Witness ==
    /\ Ok("Attach")
    /\ call.kwargs = <<KV(sId, PyStr(sV))>>
    /\ kwargs[call.self] = <<KV(sClass, PyStr(sEmpty)), KV(sId, PyStr(sV))>>
    /\ args[call.self] = <<>>
    /\ children[call.self].isNone
    /\ Render(call.self) = <<"<", "p", " ", "c", "l", "a", "s", "s", "=", "\"", "\"", " ",
                             "i", "d", "=", "\"", "v", "\"", " ", "/", ">">>

====
